---------------------------- MODULE Spec2Model ----------------------------
(***************************************************************************)
(* gpx-hr-merge: merging heart-rate samples (CSV) into a GPX track.        *)
(*                                                                         *)
(* Two specifications:                                                     *)
(*   SpecLerp  the alignment engine binary_search_lerp applied to a        *)
(*             trackpoint time read by get_time, over bounded series;      *)
(*   Spec      one run of merge() against a small file system.             *)
(*                                                                         *)
(* Instants are datetimes counted in microseconds; a timedelta is a        *)
(* difference of instants.  Python floats are IEEE-754 doubles and are     *)
(* modelled exactly (53-bit significand, round-half-even) for the values   *)
(* the program computes.                                                   *)
(***************************************************************************)
EXTENDS Integers, Sequences, FiniteSets, TLC

\* ------------------------------------------------------------- bounds
MaxSec == 2      \* timestamps carry whole seconds 0..MaxSec
MaxHR  == 2      \* heart-rate values 0..MaxHR (and one large value)
MaxLen == 3      \* longest heart-rate series handed to the search
MaxCap == 1      \* max_interpolate ranges over None and 0..MaxCap
MaxPts == 2      \* most trackpoints in a track document
MaxRows == 2     \* most data rows in a CSV file

\* ------------------------------------------------- timestamps as text
\* A timestamp string is modelled by its shape (the strptime format it is
\* written in) and the fields it carries.
FMT_TZ  == "%Y-%m-%dT%H:%M:%SZ"
FMT_TFZ == "%Y-%m-%dT%H:%M:%S.%fZ"
FMT_SP  == "%Y-%m-%d %H:%M:%S"

GPX_DATE_FMTS == <<FMT_TZ, FMT_TFZ>>
CSV_DATE_FMTS == <<FMT_SP, FMT_TZ>>

UsecPerSec == 1000000

\* Fractional-second parts (microseconds) a %f field takes in the model.
Fracs == {0, 500000, 700000}

Secs == 0..MaxSec

TimeTexts ==
    [shape : {FMT_TZ}, sec : Secs, usec : {0}]
        \cup [shape : {FMT_TFZ}, sec : Secs, usec : Fracs]
        \cup [shape : {FMT_SP}, sec : {0, MaxSec}, usec : {0}]

\* Mutant of strptime: the %f field is read and dropped.
strptime_drops_usec(s, fmt) ==
    IF s.shape = fmt
    THEN [tag |-> "ok", v |-> s.sec * UsecPerSec]
    ELSE [tag |-> "raise", exc |-> "ValueError"]

\* datetime.strptime(s, fmt): the datetime (microseconds) when the string has
\* the format's shape, ValueError otherwise.  %f keeps the microseconds.
strptime(s, fmt) ==
    IF s.shape = fmt
    THEN [tag |-> "ok", v |-> s.sec * UsecPerSec + s.usec]
    ELSE [tag |-> "raise", exc |-> "ValueError"]

RECURSIVE parse_from(_, _, _)
parse_from(s, fmts, i) ==
    IF i > Len(fmts)
    THEN [tag |-> "raise", exc |-> "ValueError"]
    ELSE LET r == strptime(s, fmts[i])
         IN  IF r.tag = "ok" THEN r ELSE parse_from(s, fmts, i + 1)

\* parse_datetime: the first format that parses wins; ValueError if none.
parse_datetime(s, fmts) == parse_from(s, fmts, 1)

\* ------------------------------------------------------ Python values
None == [tag |-> "None"]
IntVal(v) == [tag |-> "int", v |-> v]
Raise(e) == [tag |-> "raise", exc |-> e]

\* ------------------------------------------------------------ doubles
\* A double of magnitude below 2^30 is  (-1)^neg * (int + 0.frac),  frac the
\* bits after the binary point, most significant first.
SigBits == 53

Abs(n) == IF n < 0 THEN -n ELSE n

RECURSIVE BitLen(_)
BitLen(n) == IF n = 0 THEN 0 ELSE 1 + BitLen(n \div 2)

\* Zero bits before the first one bit.
LeadingZeros(f) ==
    LET ones == {i \in 1..Len(f) : f[i] = 1}
    IN  IF ones = {} THEN Len(f)
        ELSE (CHOOSE i \in ones : \A j \in ones : i <= j) - 1

AllZero(f) == \A i \in 1..Len(f) : f[i] = 0

\* bits + 1 in the last place: [carry, bits].
IncrBits(f) ==
    LET zeros == {i \in 1..Len(f) : f[i] = 0}
    IN  IF zeros = {}
        THEN [carry |-> 1, bits |-> [i \in 1..Len(f) |-> 0]]
        ELSE LET p == CHOOSE i \in zeros : \A j \in zeros : j <= i
             IN  [carry |-> 0,
                  bits |-> [i \in 1..Len(f) |->
                              IF i < p THEN f[i] ELSE IF i = p THEN 1 ELSE 0]]

\* Round an exact value (sticky: non-zero bits lie beyond frac) to the
\* nearest double, ties to the even significand.
Round53(neg, int, frac, sticky) ==
    LET keep == IF int > 0 THEN SigBits - BitLen(int)
                ELSE LeadingZeros(frac) + SigBits
    IN  IF Len(frac) <= keep
        THEN [neg |-> neg, int |-> int, frac |-> frac]
        ELSE LET guard == frac[keep + 1]
                 rest  == sticky \/ \E i \in (keep + 2)..Len(frac) : frac[i] = 1
                 last  == IF keep = 0 THEN int % 2 ELSE frac[keep]
                 kept  == SubSeq(frac, 1, keep)
                 up    == guard = 1 /\ (rest \/ last = 1)
                 inc   == IncrBits(kept)
             IN  IF up
                 THEN [neg |-> neg, int |-> int + inc.carry, frac |-> inc.bits]
                 ELSE [neg |-> neg, int |-> int, frac |-> kept]

\* Long division, one quotient bit per step: the next k fraction bits of
\* r/b (0 <= r < b) and the remainder left after them.  (The test on r comes
\* first so that the remainder handed over is evaluated on entry.)
RECURSIVE GenFrac(_, _, _)
GenFrac(r, b, k) ==
    IF r < 0 \/ k = 0 THEN [frac |-> <<>>, rem |-> r]
    ELSE IF k = 1
    THEN LET bit == IF 2 * r >= b THEN 1 ELSE 0
         IN  [frac |-> <<bit>>, rem |-> 2 * r - bit * b]
    ELSE LET h  == k \div 2
             hi == GenFrac(r, b, h)
             lo == GenFrac(hi.rem, b, k - h)
         IN  [frac |-> hi.frac \o lo.frac, rem |-> lo.rem]

\* Zero bits that open the binary fraction of r/b, 0 < r < b.
RECURSIVE LeadZ(_, _)
LeadZ(r, b) == IF 2 * r >= b THEN 0 ELSE 1 + LeadZ(2 * r, b)

\* a / b for integers a and b > 0 (true division, correctly rounded).
TrueDiv(a, b) ==
    LET q == Abs(a) \div b
        r == Abs(a) % b
        k == IF r = 0 THEN 0
             ELSE IF q > 0 THEN SigBits + 1 - BitLen(q)
             ELSE LeadZ(r, b) + SigBits + 1
        g == GenFrac(r, b, k)
    IN  Round53(a < 0, q, g.frac, g.rem # 0)

\* (0.frac) * n + cin in the last place, exactly (n, cin >= 0): [carry into
\* the integer part, bits].  (The test on cin evaluates the carry on entry.)
RECURSIVE MulBits(_, _, _)
MulBits(f, n, cin) ==
    IF cin < 0 \/ f = <<>> THEN [carry |-> cin, bits |-> <<>>]
    ELSE IF Len(f) = 1
    THEN LET t == f[1] * n + cin
         IN  [carry |-> t \div 2, bits |-> <<t % 2>>]
    ELSE LET h  == Len(f) \div 2
             lo == MulBits(SubSeq(f, h + 1, Len(f)), n, cin)
             hi == MulBits(SubSeq(f, 1, h), n, lo.carry)
         IN  [carry |-> hi.carry, bits |-> hi.bits \o lo.bits]

\* n * x for an integer n and a double x.
MulInt(n, x) ==
    LET m  == MulBits(x.frac, Abs(n), 0)
        sg == (n < 0) # x.neg
    IN  Round53(sg, x.int * Abs(n) + m.carry, m.bits, FALSE)

\* 1 - 0.frac for a non-zero fraction.
Compl(f) == IncrBits([i \in 1..Len(f) |-> 1 - f[i]]).bits

\* The exact value  big - (int + 0.frac)  >= 0, as [int, frac].
SubMag(big, int, frac) ==
    IF AllZero(frac) THEN [int |-> big - int, frac |-> <<>>]
    ELSE [int |-> big - int - 1, frac |-> Compl(frac)]

\* n + x for an integer n and a double x.
AddInt(n, x) ==
    IF (n < 0) = x.neg \/ n = 0
    THEN Round53(x.neg, Abs(n) + x.int, x.frac, FALSE)
    ELSE IF Abs(n) > x.int \/ (Abs(n) = x.int /\ AllZero(x.frac))
         THEN LET d == SubMag(Abs(n), x.int, x.frac)
              IN  Round53(n < 0, d.int, d.frac, FALSE)
         ELSE Round53(x.neg, x.int - Abs(n), x.frac, FALSE)

\* round(x) with one argument: the nearest integer, ties to the even one.
PyRound(x) ==
    LET mag == IF x.frac = <<>> \/ x.frac[1] = 0 THEN x.int
               ELSE IF AllZero(Tail(x.frac))
                    THEN (IF x.int % 2 = 0 THEN x.int ELSE x.int + 1)
                    ELSE x.int + 1
    IN  IF x.neg THEN -mag ELSE mag


\* x > n for a double x and an integer n >= 0.
FloatGtInt(x, n) ==
    ~x.neg /\ (x.int > n \/ (x.int = n /\ ~AllZero(x.frac)))

\* timedelta.total_seconds(): microseconds / 10**6 as a double.
total_seconds(td) == TrueDiv(td, UsecPerSec)

Min(a, b) == IF a <= b THEN a ELSE b

\* ------------------------------------------------- heart-rate series
\* A series is the list of (time, hr) tuples load_hr_data returns; CSV
\* timestamps carry whole seconds only.
HRVals == (0..MaxHR) \cup {45}
Samples == {<<sec * UsecPerSec, hr>> : sec \in Secs, hr \in HRVals}

\* Python's tuple order, the order sorted() puts the samples in.
TupleLe(a, b) == a[1] < b[1] \/ (a[1] = b[1] /\ a[2] <= b[2])

IsSorted(s) == \A i \in 1..(Len(s) - 1) : TupleLe(s[i], s[i + 1])

SortedSeries ==
    UNION {{s \in [1..n -> Samples] : IsSorted(s)} : n \in 0..MaxLen}

Caps == {None} \cup {IntVal(c) : c \in 0..MaxCap}

\* ------------------------------------------------ binary_search_lerp
\* Mutant of bsl_loop: the loop runs while min_ < max_.
RECURSIVE bsl_loop_strict(_, _, _, _, _)
bsl_loop_strict(time, hr_data, min_, max_, idx) ==
    IF min_ < max_
    THEN LET m == (min_ + max_) \div 2
         IN  IF hr_data[m + 1][1] = time
             THEN [ret |-> TRUE, idx |-> <<m>>]
             ELSE IF hr_data[m + 1][1] < time
                  THEN bsl_loop_strict(time, hr_data, m + 1, max_, <<m>>)
                  ELSE bsl_loop_strict(time, hr_data, min_, m - 1, <<m>>)
    ELSE [ret |-> FALSE, idx |-> idx]

\* The while loop: idx is <<>> while the local is unbound, <<i>> after the
\* probe of index i (0-based, as in the source).
RECURSIVE bsl_loop(_, _, _, _, _)
bsl_loop(time, hr_data, min_, max_, idx) ==
    IF min_ <= max_
    THEN LET m == (min_ + max_) \div 2
         IN  IF hr_data[m + 1][1] = time
             THEN [ret |-> TRUE, idx |-> <<m>>]
             ELSE IF hr_data[m + 1][1] < time
                  THEN bsl_loop(time, hr_data, m + 1, max_, <<m>>)
                  ELSE bsl_loop(time, hr_data, min_, m - 1, <<m>>)
    ELSE [ret |-> FALSE, idx |-> idx]

\* Mutant of lower_idx: the index is never stepped back.
lower_idx_no_step(time, hr_data, i) == i

\* The lower-bound adjustment after a search without a match.
lower_idx(time, hr_data, i) ==
    IF hr_data[i + 1][1] > time THEN i - 1 ELSE i

\* Mutant of over_cap: timedelta.seconds (whole seconds) is compared.
over_cap_whole_seconds(time, time1, time2, max_interpolate) ==
    max_interpolate # None
        /\ Min(time - time1, time2 - time) \div UsecPerSec > max_interpolate.v

\* The gap cap: min(time-time1, time2-time).total_seconds() > max_interpolate.
over_cap(time, time1, time2, max_interpolate) ==
    max_interpolate # None
        /\ FloatGtInt(total_seconds(Min(time - time1, time2 - time)),
                      max_interpolate.v)

\* Mutant of lerp: int() truncates where round() is meant.
lerp_truncates(time, time1, hr1, time2, hr2) ==
    LET x == AddInt(hr1, MulInt(hr2 - hr1, TrueDiv(time - time1, time2 - time1)))
    IN  IF x.neg THEN -x.int ELSE x.int

\* round(hr1 + (hr2-hr1) * ((time-time1) / (time2-time1)))
lerp(time, time1, hr1, time2, hr2) ==
    PyRound(AddInt(hr1, MulInt(hr2 - hr1, TrueDiv(time - time1, time2 - time1))))

binary_search_lerp(time, hr_data, max_interpolate) ==
    LET s == bsl_loop(time, hr_data, 0, Len(hr_data) - 1, <<>>)
    IN  IF s.ret THEN IntVal(hr_data[s.idx[1] + 1][2])
        ELSE IF s.idx = <<>> THEN Raise("UnboundLocalError")
        ELSE LET idx == lower_idx(time, hr_data, s.idx[1])
             IN  IF ~(0 <= idx /\ idx < Len(hr_data) - 1) THEN None
                 ELSE LET time1 == hr_data[idx + 1][1]
                          hr1   == hr_data[idx + 1][2]
                          time2 == hr_data[idx + 2][1]
                          hr2   == hr_data[idx + 2][2]
                      IN  IF over_cap(time, time1, time2, max_interpolate)
                          THEN None
                          ELSE IF time2 = time1
                               THEN Raise("ZeroDivisionError")
                               ELSE IntVal(lerp(time, time1, hr1, time2, hr2))

\* ---------------------------------------------------- load_hr_data
\* A CSV file is missing, or a list of lines; a line is a row of two cells.
\* The timestamp cell is a timestamp text, the heart-rate cell is the text
\* of an integer ([tag |-> "int"]) or something int() rejects.
HeaderRow == [ts |-> "Time", hr |-> "Heart Rate"]
NotANumber == [tag |-> "text"]

CsvTimeTexts ==
    {t \in TimeTexts :
        \/ t.shape = FMT_SP /\ t.sec \in {0, MaxSec}
        \/ t.shape = FMT_TZ /\ t.sec = MaxSec
        \/ t.shape = FMT_TFZ /\ t.sec = 0 /\ t.usec = 0}

CsvRows ==
    [ts : {t \in CsvTimeTexts : t.shape = FMT_SP}, hr : {IntVal(0), IntVal(MaxHR)}]
        \cup [ts : {t \in CsvTimeTexts : t.shape # FMT_SP}, hr : {IntVal(MaxHR)}]
        \cup [ts : {t \in CsvTimeTexts : t.shape = FMT_SP /\ t.sec = 0},
              hr : {NotANumber}]

CsvFiles ==
    {[kind |-> "missing"], [kind |-> "file", lines |-> <<>>]}
        \cup {[kind |-> "file", lines |-> <<HeaderRow>> \o rows] :
                rows \in UNION {[1..n -> CsvRows] : n \in 0..MaxRows}}

\* int(s)
int_(cell) ==
    IF cell.tag = "int" THEN [tag |-> "ok", v |-> cell.v]
    ELSE Raise("ValueError")

TupleLt(a, b) == TupleLe(a, b) /\ a # b

\* sorted(data): insertion into the sorted rest.
RECURSIVE sorted(_)
sorted(data) ==
    IF data = <<>> THEN <<>>
    ELSE LET x    == Head(data)
             rest == sorted(Tail(data))
             n    == Cardinality({i \in 1..Len(rest) : TupleLt(rest[i], x)})
         IN  SubSeq(rest, 1, n) \o <<x>> \o SubSeq(rest, n + 1, Len(rest))

\* The for loop over the rows after the header: the first row that does not
\* parse raises.
RECURSIVE load_rows(_, _, _)
load_rows(lines, i, data) ==
    IF i > Len(lines) THEN [tag |-> "ok", v |-> sorted(data)]
    ELSE LET t == parse_datetime(lines[i].ts, CSV_DATE_FMTS)
             h == int_(lines[i].hr)
         IN  IF t.tag = "raise" THEN t
             ELSE IF h.tag = "raise" THEN h
             ELSE load_rows(lines, i + 1, Append(data, <<t.v, h.v>>))

load_hr_data(csv) ==
    IF csv.kind = "missing" THEN Raise("FileNotFoundError")
    ELSE IF csv.lines = <<>> THEN Raise("StopIteration")
    ELSE load_rows(csv.lines, 2, <<>>)

\* ------------------------------------------------------- trackpoints
\* A trackpoint: the text of its <time> child (NoTime: no such child), which
\* of the nested extension elements exist, and the text of the <hr> element
\* (None: no <hr> element; str(v) is modelled by v).
NoTime == [shape |-> "absent"]

TrkTimeTexts ==
    {t \in TimeTexts :
        \/ t.shape = FMT_TZ /\ t.sec \in {0, 1, MaxSec}
        \/ t.shape = FMT_TFZ /\ t.sec = 0 /\ t.usec = 500000
        \/ t.shape = FMT_SP /\ t.sec = 0}

\* Trackpoints without extensions, and trackpoints (stamped second 0) that
\* already carry a heart rate.
Trkpts ==
    [time : {t \in TrkTimeTexts : t.sec # 0 \/ t.shape # FMT_TZ} \cup {NoTime},
     extensions : {FALSE}, TrackPointExtension : {FALSE}, hr : {None}]
        \cup [time : {t \in TrkTimeTexts : t.sec = 0 /\ t.shape = FMT_TZ},
              extensions : {TRUE}, TrackPointExtension : {TRUE},
              hr : {IntVal(MaxHR + 1)}]

get_time(trkpt) ==
    IF trkpt.time = NoTime THEN Raise("AttributeError")
    ELSE parse_datetime(trkpt.time, GPX_DATE_FMTS)

set_hr(trkpt, value) ==
    [trkpt EXCEPT !.extensions = TRUE,
                  !.TrackPointExtension = TRUE,
                  !.hr = IntVal(value)]

\* -------------------------------------------------------------- files
\* What a path holds: nothing, a GPX document (its trackpoints), bytes that
\* are no XML document, or the opening part of a document being written.
Absent == [kind |-> "absent"]
Doc(pts) == [kind |-> "xml", pts |-> pts]
Garbage == [kind |-> "garbage"]
Partial(pts) == [kind |-> "partial", pts |-> pts]

Docs == {Doc(pts) : pts \in UNION {[1..n -> Trkpts] : n \in 0..MaxPts}}

\* ------------------------------------------------------------- state
VARIABLES
    lpc,        \* harness position: "get_time", "lerp", "returned", "raised"
    l_hr_data,  \* the series handed to binary_search_lerp
    l_text,     \* the trackpoint's <time> text
    l_cap,      \* max_interpolate
    l_time,     \* get_time's result (<<>> before it ran)
    l_res,      \* the call's outcome (<<>> before it ran)
    pc,         \* merge's position
    fs,         \* what gpx_file and orig_gpx hold
    pre,        \* fs when the run started
    backed_up,  \* the original has been renamed to orig_gpx in this run
    interpolate,\* merge's argument
    hr_data,    \* load_hr_data's result
    gpx,        \* the parsed document's trackpoints
    k,          \* the trackpoint the for loop is at (1-based)
    exc,        \* the exception in flight or propagated ("" if none)
    visits,     \* per trackpoint: times the loop body ran for it
    sets        \* per trackpoint: times set_hr ran for it

lvars == <<lpc, l_hr_data, l_text, l_cap, l_time, l_res>>
mvars == <<pc, fs, pre, backed_up, interpolate, hr_data, gpx, k, exc, visits, sets>>
vars == <<lvars, mvars>>

\* The variables of the specification that is not running.
LerpIdle ==
    /\ lpc = "idle" /\ l_hr_data = <<>> /\ l_text = NoTime
    /\ l_cap = None /\ l_time = <<>> /\ l_res = <<>>

MergeIdle ==
    /\ pc = "idle" /\ fs = [gpx_file |-> Absent, orig_gpx |-> Absent]
    /\ pre = fs /\ backed_up = FALSE /\ interpolate = FALSE
    /\ hr_data = <<>> /\ gpx = <<>>
    /\ k = 0 /\ exc = "" /\ visits = <<>> /\ sets = <<>>

\* ---------------------------------- the alignment engine on its own
LInit ==
    /\ lpc = "get_time"
    /\ l_hr_data \in SortedSeries
    /\ l_text \in TimeTexts
    /\ l_cap \in Caps
    /\ l_time = <<>>
    /\ l_res = <<>>
    /\ MergeIdle

\* get_time(trkpt): parse the <time> text with the GPX formats.
LGetTime ==
    /\ lpc = "get_time"
    /\ LET r == parse_datetime(l_text, GPX_DATE_FMTS)
       IN  IF r.tag = "ok"
           THEN /\ l_time' = <<r.v>>
                /\ lpc' = "lerp"
                /\ l_res' = l_res
           ELSE /\ l_res' = Raise(r.exc)
                /\ lpc' = "raised"
                /\ l_time' = l_time
    /\ UNCHANGED <<l_hr_data, l_text, l_cap, mvars>>

\* binary_search_lerp(point_time, hr_data, max_interpolate)
LLerp ==
    /\ lpc = "lerp"
    /\ l_res' = binary_search_lerp(l_time[1], l_hr_data, l_cap)
    /\ lpc' = IF l_res'.tag = "raise" THEN "raised" ELSE "returned"
    /\ UNCHANGED <<l_hr_data, l_text, l_cap, l_time, mvars>>

LNext == LGetTime \/ LLerp

SpecLerp == LInit /\ [][LNext]_vars

\* ------------------------------------------------------------ merge()
Present(c) == c # Absent

Init ==
    /\ pc = "start"
    /\ fs \in [gpx_file : Docs \cup {Absent, Garbage},
               orig_gpx : {Absent, Doc(<<>>)}]
    /\ pre = fs
    /\ backed_up = FALSE
    /\ interpolate \in BOOLEAN
    /\ hr_data = <<>>
    /\ gpx = <<>>
    /\ k = 0
    /\ exc = ""
    /\ visits = <<>>
    /\ sets = <<>>
    /\ LerpIdle

\* The argument merge passes: 1 if not interpolate else None.
max_interpolate == IF ~interpolate THEN IntVal(1) ELSE None

\* hr_data = load_hr_data(hr_file); an error leaves merge at once.
LoadHrData ==
    /\ pc = "start"
    /\ \E csv \in CsvFiles :
          LET r == load_hr_data(csv)
          IN  IF r.tag = "ok"
              THEN /\ hr_data' = r.v
                   /\ pc' = "check_gpx"
                   /\ exc' = exc
              ELSE /\ hr_data' = hr_data
                   /\ pc' = "failed"
                   /\ exc' = r.exc
    /\ UNCHANGED <<fs, pre, backed_up, interpolate, gpx, k, visits, sets, lvars>>

\* if not os.path.exists(gpx_file): raise
CheckGpxExists ==
    /\ pc = "check_gpx"
    /\ IF Present(fs.gpx_file)
       THEN pc' = "check_backup" /\ exc' = exc
       ELSE pc' = "failed" /\ exc' = "Exception: GPX file does not exist"
    /\ UNCHANGED <<fs, pre, backed_up, interpolate, hr_data, gpx, k, visits, sets, lvars>>

\* Mutant of CheckBackup: the existing backup is not looked for.
CheckBackup_not_checked ==
    /\ pc = "check_backup"
    /\ pc' = "rename" /\ exc' = exc
    /\ UNCHANGED <<fs, pre, backed_up, interpolate, hr_data, gpx, k, visits, sets, lvars>>

\* if os.path.exists(orig_gpx): raise
CheckBackup ==
    /\ pc = "check_backup"
    /\ IF Present(fs.orig_gpx)
       THEN pc' = "failed" /\ exc' = "Exception: Backup already exists"
       ELSE pc' = "rename" /\ exc' = exc
    /\ UNCHANGED <<fs, pre, backed_up, interpolate, hr_data, gpx, k, visits, sets, lvars>>

\* os.rename(gpx_file, orig_gpx)
RenameToBackup ==
    /\ pc = "rename"
    /\ fs' = [gpx_file |-> Absent, orig_gpx |-> fs.gpx_file]
    /\ backed_up' = TRUE
    /\ pc' = "parse"
    /\ UNCHANGED <<pre, interpolate, hr_data, gpx, k, exc, visits, sets, lvars>>

\* gpx = ET.parse(orig_gpx)
Parse ==
    /\ pc = "parse"
    /\ IF fs.orig_gpx.kind = "xml"
       THEN /\ gpx' = fs.orig_gpx.pts
            /\ k' = 1
            /\ visits' = [i \in 1..Len(fs.orig_gpx.pts) |-> 0]
            /\ sets' = [i \in 1..Len(fs.orig_gpx.pts) |-> 0]
            /\ pc' = "loop"
            /\ exc' = exc
       ELSE /\ pc' = "restore"
            /\ exc' = "ParseError"
            /\ UNCHANGED <<gpx, k, visits, sets>>
    /\ UNCHANGED <<fs, pre, backed_up, interpolate, hr_data, lvars>>

\* Mutant of truthy: only None counts as no data.
truthy_is_not_none(r) == r # None

\* if hr_at_time:
truthy(r) == r # None /\ r.v # 0

\* One pass of the for loop's body, or its end.
LoopBody ==
    /\ pc = "loop"
    /\ k <= Len(gpx)
    /\ visits' = [visits EXCEPT ![k] = @ + 1]
    /\ LET point_time == get_time(gpx[k])
       IN  IF point_time.tag = "raise"
           THEN /\ pc' = "restore" /\ exc' = point_time.exc
                /\ UNCHANGED <<gpx, k, sets>>
           ELSE LET hr_at_time ==
                        binary_search_lerp(point_time.v, hr_data, max_interpolate)
                IN  IF hr_at_time.tag = "raise"
                    THEN /\ pc' = "restore" /\ exc' = hr_at_time.exc
                         /\ UNCHANGED <<gpx, k, sets>>
                    ELSE /\ IF truthy(hr_at_time)
                            THEN /\ gpx' = [gpx EXCEPT ![k] = set_hr(@, hr_at_time.v)]
                                 /\ sets' = [sets EXCEPT ![k] = @ + 1]
                            ELSE UNCHANGED <<gpx, sets>>
                         /\ k' = k + 1
                         /\ UNCHANGED <<pc, exc>>
    /\ UNCHANGED <<fs, pre, backed_up, interpolate, hr_data, lvars>>

LoopEnd ==
    /\ pc = "loop"
    /\ k > Len(gpx)
    /\ pc' = "write"
    /\ UNCHANGED <<fs, pre, backed_up, interpolate, hr_data, gpx, k, exc, visits, sets, lvars>>

\* Mutant of WriteOpen: the output is opened at the backup's path.
WriteOpen_at_backup ==
    /\ pc = "write"
    /\ fs' = [fs EXCEPT !.orig_gpx = Partial(<<>>)]
    /\ pc' = "writing"
    /\ UNCHANGED <<pre, backed_up, interpolate, hr_data, gpx, k, exc, visits, sets, lvars>>

\* gpx.write(gpx_file, ...): the file is created (truncated) ...
WriteOpen ==
    /\ pc = "write"
    /\ fs' = [fs EXCEPT !.gpx_file = Partial(<<>>)]
    /\ pc' = "writing"
    /\ UNCHANGED <<pre, backed_up, interpolate, hr_data, gpx, k, exc, visits, sets, lvars>>

\* ... or cannot be created,
WriteOpenFails ==
    /\ pc = "write"
    /\ pc' = "restore" /\ exc' = "OSError"
    /\ UNCHANGED <<fs, pre, backed_up, interpolate, hr_data, gpx, k, visits, sets, lvars>>

\* the document is serialized into it in full ...
WriteAll ==
    /\ pc = "writing"
    /\ fs' = [fs EXCEPT !.gpx_file = Doc(gpx)]
    /\ pc' = "done"
    /\ UNCHANGED <<pre, backed_up, interpolate, hr_data, gpx, k, exc, visits, sets, lvars>>

\* ... or the write fails after n trackpoints went out.
WriteFails ==
    /\ pc = "writing"
    /\ \E n \in 0..Len(gpx) :
          fs' = [fs EXCEPT !.gpx_file = Partial(SubSeq(gpx, 1, n))]
    /\ pc' = "restore" /\ exc' = "OSError"
    /\ UNCHANGED <<pre, backed_up, interpolate, hr_data, gpx, k, visits, sets, lvars>>

\* except Exception: os.rename(orig_gpx, gpx_file); raise
\* os.rename replaces an existing destination file on POSIX ...
RestoreReplaces ==
    /\ pc = "restore"
    /\ fs' = [gpx_file |-> fs.orig_gpx, orig_gpx |-> Absent]
    /\ pc' = "failed"
    /\ UNCHANGED <<pre, backed_up, interpolate, hr_data, gpx, k, exc, visits, sets, lvars>>

\* ... and raises FileExistsError on Windows when the destination exists.
RestoreRefused ==
    /\ pc = "restore"
    /\ Present(fs.gpx_file)
    /\ pc' = "failed" /\ exc' = "FileExistsError"
    /\ UNCHANGED <<fs, pre, backed_up, interpolate, hr_data, gpx, k, visits, sets, lvars>>

Next ==
    \/ LoadHrData
    \/ CheckGpxExists
    \/ CheckBackup
    \/ RenameToBackup
    \/ Parse
    \/ LoopBody
    \/ LoopEnd
    \/ WriteOpen
    \/ WriteOpenFails
    \/ WriteAll
    \/ WriteFails
    \/ RestoreReplaces
    \/ RestoreRefused

Spec == Init /\ [][Next]_vars

\* =====================================================================
\* Properties of the alignment engine (checked under SpecLerp)
\* =====================================================================
LDone == lpc \in {"returned", "raised"} /\ l_time # <<>>
LT == l_time[1]
LN == Len(l_hr_data)
LTimeAt(i) == l_hr_data[i][1]
LHrAt(i) == l_hr_data[i][2]

\* No two samples of the series share an instant.
DistinctInstants ==
    \A i, j \in 1..LN : i # j => LTimeAt(i) # LTimeAt(j)

LMatches == {i \in 1..LN : LTimeAt(i) = LT}

\* The samples that bracket a query between two adjacent samples.
LBrackets == {i \in 1..(LN - 1) : LTimeAt(i) < LT /\ LT < LTimeAt(i + 1)}

\* The exact value hr1 + (hr2-hr1)*(T-t1)/(t2-t1) is ExactNum(i)/ExactDen(i).
ExactDen(i) == LTimeAt(i + 1) - LTimeAt(i)
ExactNum(i) ==
    LHrAt(i) * ExactDen(i) + (LHrAt(i + 1) - LHrAt(i)) * (LT - LTimeAt(i))

\* n/d (n >= 0, d > 0) rounded to the nearest integer, ties to the even one.
RoundHalfEven(n, d) ==
    LET q == n \div d
        r == n % d
    IN  IF 2 * r < d THEN q
        ELSE IF 2 * r > d THEN q + 1
        ELSE IF q % 2 = 0 THEN q ELSE q + 1

IsTie(i) == 2 * (ExactNum(i) % ExactDen(i)) = ExactDen(i)

RECURSIVE GCD(_, _)
GCD(a, b) == IF b = 0 THEN a ELSE GCD(b, a % b)

RECURSIVE IsPow2(_)
IsPow2(n) == n = 1 \/ (n > 1 /\ n % 2 = 0 /\ IsPow2(n \div 2))

\* (T-t1)/(t2-t1) is a binary fraction, so the double holds it exactly.
DyadicRatio(i) ==
    IsPow2(ExactDen(i) \div GCD(ExactDen(i), LT - LTimeAt(i)))

\* The gap cap lets the query through: no cap, or the nearer sample is
\* within max_interpolate seconds.
WithinCap(i) ==
    \/ l_cap = None
    \/ Min(LT - LTimeAt(i), LTimeAt(i + 1) - LT) <= l_cap.v * UsecPerSec

\* C4: on a sorted series with pairwise distinct instants, querying the
\* instant of any sample returns that sample's heart rate unchanged,
\* whatever max_interpolate is.
C4_ExactMatchReturnsSample ==
    (LDone /\ DistinctInstants)
        => \A i \in LMatches : l_res = IntVal(LHrAt(i))

\* C4 witness: a three-sample series, the query hits its first sample (not
\* the first probe of the search) under a gap cap of 0 seconds.
C4_Witness ==
    /\ LDone /\ DistinctInstants /\ LN = 3
    /\ 1 \in LMatches
    /\ l_cap = IntVal(0)
    /\ l_res = IntVal(LHrAt(1))

\* C5 as stated: on a non-empty sorted series a query before the first
\* sample or at/after the last sample returns None.
C5_Original ==
    (LDone /\ LN > 0 /\ (LT < LTimeAt(1) \/ LT >= LTimeAt(LN)))
        => l_res = None

\* C5 amended: on a non-empty sorted series a query strictly before the
\* first sample or strictly after the last sample returns None (a query at
\* the last sample's instant is an exact match and returns its value).
C5_NoExtrapolation ==
    (LDone /\ LN > 0 /\ (LT < LTimeAt(1) \/ LT > LTimeAt(LN)))
        => l_res = None

\* C5 witness: queries outside a series of at least two samples, no cap.
C5_Witness ==
    /\ LDone /\ LN >= 2 /\ l_cap = None
    /\ LT > LTimeAt(LN)
    /\ l_res = None

\* C6 as stated: a query strictly between two adjacent samples whose gap
\* t2 - t1 exceeds max_interpolate returns None.
C6_Original ==
    LDone => \A i \in LBrackets :
        (l_cap # None /\ ExactDen(i) > l_cap.v * UsecPerSec) => l_res = None

\* C6 amended: a query strictly between two adjacent samples returns None
\* when max_interpolate is smaller than min(T - t1, t2 - T), the distance to
\* the nearer of the two samples.
C6_GapCap ==
    LDone => \A i \in LBrackets : ~WithinCap(i) => l_res = None

\* C6 witness: a bracketed query half a second from both samples, cap 0.
C6_Witness ==
    /\ LDone /\ l_cap = IntVal(0)
    /\ \E i \in LBrackets : ~WithinCap(i) /\ LHrAt(i) # LHrAt(i + 1)
    /\ l_res = None

\* C7 as stated: with an empty series binary_search_lerp returns None for
\* every query and raises no error.
C7_Original ==
    (LDone /\ LN = 0) => l_res = None

\* C8 as stated: on a sorted series with distinct instants, a query that
\* matches no sample, lies strictly between the first and last instants and
\* passes the gap cap returns the exact interpolation between the nearest
\* sample below and the nearest above, rounded half-to-even.
C8_Original ==
    (LDone /\ DistinctInstants /\ LMatches = {})
        => \A i \in LBrackets :
               WithinCap(i)
                   => l_res = IntVal(RoundHalfEven(ExactNum(i), ExactDen(i)))

\* C8 amended: under the same conditions the two samples selected are the
\* nearest below and the nearest above (t1 < T < t2), and the result is an
\* integer nearest to hr1 + (hr2-hr1)*(T-t1)/(t2-t1): the half-to-even
\* rounding of the exact value unless that value is an exact tie k + 1/2
\* and (T-t1)/(t2-t1) is not a binary fraction, where the double's rounding
\* error decides between k and k + 1.  At the midpoint the result is within
\* 1/2 of (hr1+hr2)/2, and it always lies between min(hr1,hr2) and
\* max(hr1,hr2).
C8_NearestInteger ==
    (LDone /\ DistinctInstants /\ LMatches = {})
        => \A i \in LBrackets :
               WithinCap(i)
                   => /\ l_res.tag = "int"
                      /\ 2 * Abs(l_res.v * ExactDen(i) - ExactNum(i)) <= ExactDen(i)
                      /\ (~IsTie(i) \/ DyadicRatio(i))
                            => l_res.v = RoundHalfEven(ExactNum(i), ExactDen(i))
                      /\ Min(LHrAt(i), LHrAt(i + 1)) <= l_res.v
                      /\ l_res.v <= Min(LHrAt(i), LHrAt(i + 1))
                                      + Abs(LHrAt(i + 1) - LHrAt(i))
                      /\ (2 * (LT - LTimeAt(i)) = ExactDen(i))
                            => Abs(2 * l_res.v - (LHrAt(i) + LHrAt(i + 1))) <= 1

\* C8 witness: three samples, the query at the midpoint of the last two,
\* the exact value a tie that rounds up to the even integer.
C8_Witness ==
    /\ LDone /\ DistinctInstants /\ LMatches = {} /\ LN = 3
    /\ 2 \in LBrackets /\ WithinCap(2) /\ IsTie(2)
    /\ l_res.tag = "int"
    /\ l_res.v % 2 = 0
    /\ l_res.v * ExactDen(2) > ExactNum(2)

\* The sample stamped with the whole second of the trackpoint's text.
SameSecond == {i \in 1..LN : LTimeAt(i) = l_text.sec * UsecPerSec}

\* C9 as stated: a trackpoint time with a fractional-second part matches the
\* sample stamped with the same whole second and receives its value.
C9_Original ==
    (LDone /\ DistinctInstants /\ l_text.shape = FMT_TFZ)
        => \A i \in SameSecond : l_res = IntVal(LHrAt(i))

\* C9 amended: instants keep their microseconds.  A trackpoint time written
\* with a fractional part matches the sample of the same whole second only
\* when the fraction is zero; with a non-zero fraction it is never an exact
\* match: it gets None when that sample is the last of the series, and
\* otherwise (the gap cap permitting) an integer nearest to the value
\* interpolated between that sample and the next.
C9_MicrosecondsKept ==
    (LDone /\ DistinctInstants /\ l_text.shape = FMT_TFZ)
        => \A i \in SameSecond :
              /\ l_text.usec = 0 => l_res = IntVal(LHrAt(i))
              /\ (l_text.usec # 0 /\ i = LN) => l_res = None
              /\ (l_text.usec # 0 /\ i < LN)
                    => /\ i \in LBrackets
                       /\ ~WithinCap(i) => l_res = None
                       /\ WithinCap(i)
                             => /\ l_res.tag = "int"
                                /\ 2 * Abs(l_res.v * ExactDen(i) - ExactNum(i))
                                       <= ExactDen(i)

\* C9 witness: half a second after a sample, a cap of 1 second (merge's
\* default): the trackpoint gets an interpolated value, not the sample's.
C9_Witness ==
    /\ LDone /\ DistinctInstants /\ l_text.shape = FMT_TFZ
    /\ l_text.usec = 500000 /\ l_cap = IntVal(1)
    /\ \E i \in SameSecond :
          i < LN /\ l_res.tag = "int" /\ l_res.v # LHrAt(i)

\* =====================================================================
\* Properties of merge() (checked under Spec)
\* =====================================================================
\* The trackpoints of the track file as the run found it.
OrigPts == pre.gpx_file.pts

\* What the loop is meant to leave at trackpoint i: the heart rate set when
\* the alignment result is a non-zero number, the trackpoint as it was
\* otherwise.
AlignResult(i) ==
    LET t == get_time(OrigPts[i])
    IN  IF t.tag = "raise" THEN t
        ELSE binary_search_lerp(t.v, hr_data, max_interpolate)

NoData(r) == r.tag = "raise" \/ r = None \/ r = IntVal(0)

\* C1: when the backup path already holds a file as the run starts, the run
\* never gets past the backup check, ends in an error, and both paths hold
\* their pre-run contents throughout.
C1_ExistingBackupUntouched ==
    (pc # "idle" /\ Present(pre.orig_gpx))
        => /\ fs = pre
           /\ pc \in {"start", "check_gpx", "check_backup", "failed"}

\* C1 witness: the run has failed on the backup check with both files there.
C1_Witness ==
    /\ pc = "failed" /\ exc = "Exception: Backup already exists"
    /\ pre.gpx_file.kind = "xml" /\ Present(pre.orig_gpx)
    /\ fs = pre

\* C2 as stated: a run that fails after the original was renamed to the
\* backup ends with gpx_file holding exactly its pre-run bytes.
C2_Original ==
    (pc = "failed" /\ backed_up) => fs.gpx_file = pre.gpx_file

\* C3: for a run that starts with gpx_file present and no backup, in every
\* state at least one of the two paths holds the pre-run bytes; the backup
\* path never holds anything else; after success the backup holds them.
C3_OriginalAlwaysRecoverable ==
    (pc # "idle" /\ Present(pre.gpx_file) /\ ~Present(pre.orig_gpx))
        => /\ fs.gpx_file = pre.gpx_file \/ fs.orig_gpx = pre.gpx_file
           /\ fs.orig_gpx \in {Absent, pre.gpx_file}
           /\ pc = "done" => fs.orig_gpx = pre.gpx_file

\* C3 witness: a successful run that changed the track; the backup holds
\* the pre-run document.
C3_Witness ==
    /\ pc = "done" /\ ~Present(pre.orig_gpx)
    /\ fs.orig_gpx = pre.gpx_file
    /\ fs.gpx_file # pre.gpx_file
    /\ Len(gpx) >= 2

\* C10: once the document is parsed, each trackpoint has been visited at most
\* once (exactly once when the loop has passed it) and set_hr has run on it
\* at most once; a visited trackpoint carries the alignment result when that
\* is a non-zero number and is otherwise exactly as it was parsed (None and
\* 0 both count as no data); the document written on success is the result.
C10_VisitedOnceMutatedAtMostOnce ==
    (pc # "idle" /\ visits # <<>>)
        => /\ \A i \in 1..Len(gpx) :
                /\ visits[i] <= 1 /\ sets[i] <= visits[i]
                /\ pc \in {"loop", "write", "writing", "done"}
                      => visits[i] = (IF i < k THEN 1 ELSE 0)
                /\ IF visits[i] = 1 /\ ~NoData(AlignResult(i))
                   THEN /\ gpx[i] = set_hr(OrigPts[i], AlignResult(i).v)
                        /\ sets[i] = 1
                   ELSE /\ gpx[i] = OrigPts[i]
                        /\ sets[i] = 0
           /\ pc = "done" => fs.gpx_file = Doc(gpx)

\* C10 witness: a successful run over two trackpoints: the first already
\* carried a heart rate, got the result 0 and is unchanged; the second had
\* no extensions and got a heart rate set.
C10_Witness ==
    /\ pc = "done" /\ Len(gpx) = 2
    /\ AlignResult(1) = IntVal(0) /\ OrigPts[1].hr # None /\ gpx[1] = OrigPts[1]
    /\ ~OrigPts[2].extensions /\ sets[2] = 1 /\ gpx[2].hr = AlignResult(2)

=============================================================================
